---- MODULE Spec2Model ----
(***************************************************************************)
(* Model of the mempool monitor: the poll loop MempoolMonitor.run, its     *)
(* bootstrap, the delta engine, and the SQL gateway SqlDbInterface with    *)
(* the three tables raw_mempool, unconfirmed_txs and ancestor_descend.     *)
(* The bitcoin node and the MySQL server are the environment: every call   *)
(* to them either answers or raises.                                       *)
(***************************************************************************)
EXTENDS Integers, Sequences, FiniteSets, TLC

\* ---------------------------------------------------------------- bounds
\* Number of turns of the loop "while True" of run(), over all processes.
MaxCycles == 3
\* Number of times the daemon may be killed and started again.
MaxRestarts == 1
\* Number of calls to the node or to MySQL that may raise.
MaxFaults == 1
\* Entries of a snapshot handed to calculate_mempool_deltas alone.
MaxTxs == 2
\* Largest ancestorcount and descendantcount handed to the mapper alone.
MaxCount == 2
\* Longest depends and spentby list handed to the mapper alone.
MaxRel == 2

\* ------------------------------------------------------- schema constants
MODE_INIT == "INIT"
MODE_ADD == "ADD"
MODE_SUB == "SUB"
ANCESTOR == "ancestor"
DESCEND == "descend"

\* ------------------------------------------------------------ python data
\* Python None / int, as returned by get_last_tick (SELECT MAX(tick)).
PyNone == [isNone |-> TRUE, value |-> 0]
PyInt(n) == [isNone |-> FALSE, value |-> n]

\* One entry of getrawmempool(True).  fees = FALSE stands for an entry that
\* lacks the "fees" object, on which __parse_unconfirmed_txs raises KeyError.
TxInfo(ac, dc, dep, spb, fees, w) ==
    [ancestorcount |-> ac, descendantcount |-> dc, depends |-> dep,
     spentby |-> spb, fees |-> fees, wtxid |-> w]

Tx(txid, info) == [txid |-> txid, info |-> info]

APlain == Tx("txA", TxInfo(1, 1, <<>>, <<>>, TRUE, "wA"))
AParent == Tx("txA", TxInfo(1, 2, <<>>, <<"txB">>, TRUE, "wA"))
BPlain == Tx("txB", TxInfo(1, 1, <<>>, <<>>, TRUE, "wB"))
BChild == Tx("txB", TxInfo(2, 1, <<"txA">>, <<>>, TRUE, "wB"))
BNoFees == Tx("txB", TxInfo(1, 1, <<>>, <<>>, FALSE, "wB"))

\* The states of the node the monitor may meet: the height of its chain
\* ("blocks" of getblockchaininfo) and its verbose mempool, a JSON object: a
\* sequence of entries with distinct txids, in the order the node sends them.
NodeState(blocks, m) == [blocks |-> blocks, mempool |-> m]

NodeStates ==
    { NodeState(100, <<>>), NodeState(100, <<APlain>>),
      NodeState(100, <<AParent, BChild>>), NodeState(101, <<BPlain>>),
      NodeState(101, <<BNoFees>>) }

Heights == {n.blocks : n \in NodeStates}

Mempools(blocks) == {n.mempool : n \in {x \in NodeStates : x.blocks = blocks}}

Keys(m) == {m[i].txid : i \in DOMAIN m}

Lookup(m, txid) == m[CHOOSE i \in DOMAIN m : m[i].txid = txid].info

\* All the orders in which Python may iterate over the set S.
Orderings(S) ==
    {s \in [1..Cardinality(S) -> S] : \A i, j \in DOMAIN s : i # j => s[i] # s[j]}

RECURSIVE Flatten(_)
Flatten(ss) == IF ss = <<>> THEN <<>> ELSE Head(ss) \o Flatten(Tail(ss))

\* --------------------------------------------------- MempoolMonitor (pure)
\* calculate_mempool_deltas: the set of results it may return; they differ
\* only in the iteration order of the two Python sets.
Project(m, order) == [i \in DOMAIN order |-> Tx(order[i], Lookup(m, order[i]))]

\* Variants of calculate_mempool_deltas used to test the properties below.
calculate_mempool_deltas_sub_all(mempool_t, mempool_tpone) ==
    LET _txs_t == Keys(mempool_t)
        _txs_tpone == Keys(mempool_tpone)
    IN  {[ADD |-> Project(mempool_tpone, a), SUB |-> Project(mempool_t, s)] :
            a \in Orderings(_txs_tpone \ _txs_t),
            s \in Orderings(_txs_t)}

calculate_mempool_deltas_no_difference(mempool_t, mempool_tpone) ==
    LET _txs_t == Keys(mempool_t)
        _txs_tpone == Keys(mempool_tpone)
    IN  {[ADD |-> Project(mempool_tpone, a), SUB |-> Project(mempool_t, s)] :
            a \in Orderings(_txs_tpone),
            s \in Orderings(_txs_t)}

calculate_mempool_deltas_no_sub(mempool_t, mempool_tpone) ==
    LET _txs_t == Keys(mempool_t)
        _txs_tpone == Keys(mempool_tpone)
    IN  {[ADD |-> Project(mempool_tpone, a), SUB |-> <<>>] :
            a \in Orderings(_txs_tpone \ _txs_t)}

calculate_mempool_deltas_by_value(mempool_t, mempool_tpone) ==
    LET _txs_t == Keys(mempool_t)
        _txs_tpone == Keys(mempool_tpone)
        changed == {t \in _txs_t \cap _txs_tpone :
                        Lookup(mempool_t, t) # Lookup(mempool_tpone, t)}
    IN  {[ADD |-> Project(mempool_tpone, a), SUB |-> Project(mempool_t, s)] :
            a \in Orderings((_txs_tpone \ _txs_t) \cup changed),
            s \in Orderings((_txs_t \ _txs_tpone) \cup changed)}

calculate_mempool_deltas_add_all(mempool_t, mempool_tpone) ==
    LET _txs_t == Keys(mempool_t)
        _txs_tpone == Keys(mempool_tpone)
    IN  {[ADD |-> Project(mempool_tpone, a), SUB |-> Project(mempool_t, s)] :
            a \in Orderings(_txs_tpone),
            s \in Orderings(_txs_t \ _txs_tpone)}

calculate_mempool_deltas(mempool_t, mempool_tpone) ==
    LET _txs_t == Keys(mempool_t)
        _txs_tpone == Keys(mempool_tpone)
    IN  {[ADD |-> Project(mempool_tpone, a), SUB |-> Project(mempool_t, s)] :
            a \in Orderings(_txs_tpone \ _txs_t),
            s \in Orderings(_txs_t \ _txs_tpone)}

\* ---------------------------------------------------- SqlDbInterface (pure)
\* bool(n): Python truth value of an int.
PyBool(n) == n # 0

\* __parse_unconfirmed_txs: the row of table unconfirmed_txs (the scalar
\* TxInfo fields that are copied through unchanged are left out but wtxid).
parse_unconfirmed_txs(tx) ==
    [ancestorcount |-> tx.info.ancestorcount,
     depends |-> PyBool(tx.info.ancestorcount - 1),
     descendantcount |-> tx.info.descendantcount,
     spentby |-> PyBool(tx.info.descendantcount - 1),
     wtxid |-> tx.info.wtxid]

\* __parse_ancestor_descend with the two relations in each other's place.
parse_ancestor_descend_swapped(tx, tick) ==
    (IF tx.info.ancestorcount > 1
       THEN [j \in DOMAIN tx.info.depends |->
                [tick |-> tick, txid |-> tx.txid, relation |-> DESCEND,
                 rel_txid |-> tx.info.depends[j]]]
       ELSE <<>>)
    \o
    (IF tx.info.descendantcount > 1
       THEN [j \in DOMAIN tx.info.spentby |->
                [tick |-> tick, txid |-> tx.txid, relation |-> ANCESTOR,
                 rel_txid |-> tx.info.spentby[j]]]
       ELSE <<>>)

\* __parse_ancestor_descend without the tests of the two counts.
parse_ancestor_descend_ungated(tx, tick) ==
    [j \in DOMAIN tx.info.depends |->
        [tick |-> tick, txid |-> tx.txid, relation |-> ANCESTOR,
         rel_txid |-> tx.info.depends[j]]]
    \o
    [j \in DOMAIN tx.info.spentby |->
        [tick |-> tick, txid |-> tx.txid, relation |-> DESCEND,
         rel_txid |-> tx.info.spentby[j]]]

\* __parse_ancestor_descend: the rows of table ancestor_descend of one tx.
parse_ancestor_descend(tx, tick) ==
    (IF tx.info.ancestorcount > 1
       THEN [j \in DOMAIN tx.info.depends |->
                [tick |-> tick, txid |-> tx.txid, relation |-> ANCESTOR,
                 rel_txid |-> tx.info.depends[j]]]
       ELSE <<>>)
    \o
    (IF tx.info.descendantcount > 1
       THEN [j \in DOMAIN tx.info.spentby |->
                [tick |-> tick, txid |-> tx.txid, relation |-> DESCEND,
                 rel_txid |-> tx.info.spentby[j]]]
       ELSE <<>>)

\* __parse_mempool with the membership rows in reverse order.
parse_mempool_membership_reversed(_verbose_mempool, _tick, _chain_height, _delta_mode) ==
    LET edges(tx) ==
            IF _delta_mode # MODE_SUB
               /\ (tx.info.ancestorcount > 1 \/ tx.info.descendantcount > 1)
              THEN parse_ancestor_descend(tx, _tick)
              ELSE <<>>
        n == Len(_verbose_mempool)
    IN  IF \E i \in DOMAIN _verbose_mempool : ~_verbose_mempool[i].info.fees
          THEN [raised |-> TRUE, unconfirmed_txs |-> <<>>, raw_mempool |-> <<>>,
                ancestor_descend |-> <<>>]
          ELSE [raised |-> FALSE,
                unconfirmed_txs |->
                    [i \in DOMAIN _verbose_mempool |->
                        parse_unconfirmed_txs(_verbose_mempool[i])],
                raw_mempool |->
                    [i \in DOMAIN _verbose_mempool |->
                        [tick |-> _tick,
                         txid |-> _verbose_mempool[n + 1 - i].txid,
                         delta_mode |-> _delta_mode,
                         chain_height |-> _chain_height]],
                ancestor_descend |->
                    Flatten([i \in DOMAIN _verbose_mempool |->
                                edges(_verbose_mempool[i])])]

\* __parse_mempool with tick and chain height in each other's place.
parse_mempool_swapped_columns(_verbose_mempool, _tick, _chain_height, _delta_mode) ==
    LET edges(tx) ==
            IF _delta_mode # MODE_SUB
               /\ (tx.info.ancestorcount > 1 \/ tx.info.descendantcount > 1)
              THEN parse_ancestor_descend(tx, _tick)
              ELSE <<>>
    IN  IF \E i \in DOMAIN _verbose_mempool : ~_verbose_mempool[i].info.fees
          THEN [raised |-> TRUE, unconfirmed_txs |-> <<>>, raw_mempool |-> <<>>,
                ancestor_descend |-> <<>>]
          ELSE [raised |-> FALSE,
                unconfirmed_txs |->
                    [i \in DOMAIN _verbose_mempool |->
                        parse_unconfirmed_txs(_verbose_mempool[i])],
                raw_mempool |->
                    [i \in DOMAIN _verbose_mempool |->
                        [tick |-> _chain_height,
                         txid |-> _verbose_mempool[i].txid,
                         delta_mode |-> _delta_mode,
                         chain_height |-> _tick]],
                ancestor_descend |->
                    Flatten([i \in DOMAIN _verbose_mempool |->
                                edges(_verbose_mempool[i])])]

\* __parse_mempool without the test of the mode.
parse_mempool_edges_in_every_mode(_verbose_mempool, _tick, _chain_height, _delta_mode) ==
    LET edges(tx) ==
            IF tx.info.ancestorcount > 1 \/ tx.info.descendantcount > 1
              THEN parse_ancestor_descend(tx, _tick)
              ELSE <<>>
    IN  IF \E i \in DOMAIN _verbose_mempool : ~_verbose_mempool[i].info.fees
          THEN [raised |-> TRUE, unconfirmed_txs |-> <<>>, raw_mempool |-> <<>>,
                ancestor_descend |-> <<>>]
          ELSE [raised |-> FALSE,
                unconfirmed_txs |->
                    [i \in DOMAIN _verbose_mempool |->
                        parse_unconfirmed_txs(_verbose_mempool[i])],
                raw_mempool |->
                    [i \in DOMAIN _verbose_mempool |->
                        [tick |-> _tick, txid |-> _verbose_mempool[i].txid,
                         delta_mode |-> _delta_mode,
                         chain_height |-> _chain_height]],
                ancestor_descend |->
                    Flatten([i \in DOMAIN _verbose_mempool |->
                                edges(_verbose_mempool[i])])]

\* __parse_mempool: raised is TRUE when a KeyError leaves the method; the
\* three row lists otherwise.
parse_mempool(_verbose_mempool, _tick, _chain_height, _delta_mode) ==
    LET edges(tx) ==
            IF _delta_mode # MODE_SUB
               /\ (tx.info.ancestorcount > 1 \/ tx.info.descendantcount > 1)
              THEN parse_ancestor_descend(tx, _tick)
              ELSE <<>>
    IN  IF \E i \in DOMAIN _verbose_mempool : ~_verbose_mempool[i].info.fees
          THEN [raised |-> TRUE, unconfirmed_txs |-> <<>>, raw_mempool |-> <<>>,
                ancestor_descend |-> <<>>]
          ELSE [raised |-> FALSE,
                unconfirmed_txs |->
                    [i \in DOMAIN _verbose_mempool |->
                        parse_unconfirmed_txs(_verbose_mempool[i])],
                raw_mempool |->
                    [i \in DOMAIN _verbose_mempool |->
                        [tick |-> _tick, txid |-> _verbose_mempool[i].txid,
                         delta_mode |-> _delta_mode,
                         chain_height |-> _chain_height]],
                ancestor_descend |->
                    Flatten([i \in DOMAIN _verbose_mempool |->
                                edges(_verbose_mempool[i])])]

MaxOf(S) == CHOOSE x \in S : \A y \in S : y <= x

\* ------------------------------------------------------------------ state
VARIABLES
    pc,                 \* position of the process in run()
    bootstrap,          \* self.__bootstrap
    nr_ticks,           \* self.__nr_ticks
    self_mempool,       \* self.__mempool (<<>> until bootstrap assigns it)
    self_chain_height,  \* self.__chain_height (0 until bootstrap assigns it)
    chain_height,       \* local chain_height of run()
    mempool,            \* local mempool of run()
    mempool_deltas,     \* local mempool_deltas of run()
    call,               \* frame of the running insert_mempool_txs call
    raw_mempool,        \* table raw_mempool, rows in insertion (nr) order
    unconfirmed_txs,    \* table unconfirmed_txs, rows in insertion order
    ancestor_descend,   \* table ancestor_descend
    restarts,           \* times the daemon was killed and started again
    faults,             \* calls that raised so far
    cycles,             \* turns of the loop begun so far
    cyc,                \* history: the process state when the cycle began
    fault,              \* history: what raised in the current cycle
    ret,                \* history: outcome of the cycle's insert calls
    life,               \* history: the store when the process started
    persisted           \* history: ticks of this process's clean cycles

mem == <<bootstrap, nr_ticks, self_mempool, self_chain_height>>
locals == <<chain_height, mempool, mempool_deltas, call>>
db == <<raw_mempool, unconfirmed_txs, ancestor_descend>>
env == <<restarts>>
hist == <<cyc, fault, ret, life, persisted>>
vars == <<pc, mem, locals, db, env, faults, cycles, hist>>

NoDeltas == [ADD |-> <<>>, SUB |-> <<>>]
NoRows == [raised |-> FALSE, unconfirmed_txs |-> <<>>, raw_mempool |-> <<>>,
           ancestor_descend |-> <<>>]
NoCall == [delta_mode |-> "none", response |-> NoRows]

\* The fields of the process a cycle may change, and the sizes of the tables.
Snapshot ==
    [bootstrap |-> bootstrap, nr_ticks |-> nr_ticks, self_mempool |-> self_mempool,
     self_chain_height |-> self_chain_height, raw_len |-> Len(raw_mempool),
     unconfirmed_len |-> Len(unconfirmed_txs),
     ancestor_len |-> Len(ancestor_descend)]

\* SELECT MAX(tick) FROM raw_mempool: NULL on an empty table.
SelectMaxTick ==
    IF raw_mempool = <<>> THEN PyNone
    ELSE PyInt(MaxOf({raw_mempool[i].tick : i \in DOMAIN raw_mempool}))

\* MempoolMonitor.__init__ with the store as it is.
Construct ==
    /\ pc' = "getblockchaininfo"
    /\ bootstrap' = TRUE
    /\ nr_ticks' = 0
    /\ self_mempool' = <<>>
    /\ self_chain_height' = 0
    /\ chain_height' = 0
    /\ mempool' = <<>>
    /\ mempool_deltas' = NoDeltas
    /\ call' = NoCall
    /\ fault' = {}
    /\ ret' = <<>>
    /\ persisted' = <<>>

Init ==
    /\ pc = "getblockchaininfo"
    /\ bootstrap = TRUE
    /\ nr_ticks = 0
    /\ self_mempool = <<>>
    /\ self_chain_height = 0
    /\ chain_height = 0
    /\ mempool = <<>>
    /\ mempool_deltas = NoDeltas
    /\ call = NoCall
    /\ raw_mempool = <<>>
    /\ unconfirmed_txs = <<>>
    /\ ancestor_descend = <<>>
    /\ restarts = 0
    /\ faults = 0
    /\ cycles = 0
    /\ cyc = Snapshot
    /\ fault = {}
    /\ ret = <<>>
    /\ life = [raw_len |-> 0, last |-> PyNone]
    /\ persisted = <<>>

\* ------------------------------------------------------ SqlDbInterface
\* get_last_tick: when the SELECT raises, the handler assigns to the unbound
\* local _last_tick, so an UnboundLocalError leaves the method.
\* Mutant: the handler returns None, as its assignment reads.
get_last_tick_returns_none(select_ok) ==
    [raised |-> FALSE, value |-> IF select_ok THEN SelectMaxTick ELSE PyNone]

get_last_tick(select_ok) ==
    IF select_ok THEN [raised |-> FALSE, value |-> SelectMaxTick]
    ELSE [raised |-> TRUE, value |-> PyNone]

\* ------------------------------------------------------ MempoolMonitor.run
\* "Resuming operation, skipping current query...": sleep and continue.
\* Mutant: the handler lacks its "continue" and the tick is advanced.
SkipCurrentQueryAdvances ==
    /\ pc' = "sleep"
    /\ nr_ticks' = nr_ticks + 1
    /\ UNCHANGED <<bootstrap, self_mempool, self_chain_height>>

SkipCurrentQuery == pc' = "sleep" /\ UNCHANGED mem

getblockchaininfo ==
    /\ pc = "getblockchaininfo"
    /\ cycles < MaxCycles
    /\ cycles' = cycles + 1
    /\ \E h \in Heights : chain_height' = h
    /\ pc' = "getrawmempool"
    /\ cyc' = Snapshot
    /\ fault' = {}
    /\ ret' = <<>>
    /\ UNCHANGED <<mem, mempool, mempool_deltas, call, db, env, faults, life,
                   persisted>>

getblockchaininfo_raises ==
    /\ pc = "getblockchaininfo"
    /\ cycles < MaxCycles
    /\ cycles' = cycles + 1
    /\ faults < MaxFaults
    /\ faults' = faults + 1
    /\ SkipCurrentQuery
    /\ cyc' = Snapshot
    /\ fault' = {"getblockchaininfo"}
    /\ ret' = <<>>
    /\ UNCHANGED <<locals, db, env, life, persisted>>

getrawmempool ==
    /\ pc = "getrawmempool"
    /\ \E m \in Mempools(chain_height) : mempool' = m
    /\ pc' = IF bootstrap THEN "bootstrap" ELSE "deltas"
    /\ UNCHANGED <<cycles, mem, chain_height, mempool_deltas, call, db, env, faults, hist>>

getrawmempool_raises ==
    /\ pc = "getrawmempool"
    /\ faults < MaxFaults
    /\ faults' = faults + 1
    /\ SkipCurrentQuery
    /\ fault' = fault \cup {"getrawmempool"}
    /\ UNCHANGED <<cycles, locals, db, env, cyc, ret, life, persisted>>

\* What the caller of insert_mempool_txs sees of one call.
Outcome(mode, result, committed, failed) ==
    [delta_mode |-> mode, result |-> result, committed |-> committed,
     failed |-> failed]

\* The end of a cycle that ran to its last statement.
EndCycle(flt) ==
    /\ fault' = flt
    /\ persisted' = IF flt = {} THEN Append(persisted, nr_ticks) ELSE persisted
    /\ call' = NoCall

\* The end of a turn of run() if it went back to bootstrap.
RunFinishBootstrapsAgain ==
    /\ self_chain_height' = chain_height
    /\ self_mempool' = mempool
    /\ nr_ticks' = nr_ticks + 1
    /\ bootstrap' = TRUE
    /\ pc' = "sleep"

\* run(), from "Log new block hash if detected" to the sleep.
RunFinish ==
    /\ self_chain_height' = chain_height
    /\ self_mempool' = mempool
    /\ nr_ticks' = nr_ticks + 1
    /\ bootstrap' = bootstrap
    /\ pc' = "sleep"

\* Mutant: no handler, the exception leaves run() and ends the process.
RunExceptMissing == pc' = "crashed" /\ UNCHANGED mem

\* run(): except Exception as sql_err: log, then fall through.
RunExcept == RunFinish

\* Mutant: the first dump reuses the last stored tick.
BootstrapTickReused(n, last) == IF ~last.isNone THEN n + last.value ELSE n

\* Mutant: the first dump ignores the last stored tick.
BootstrapTickIgnoresStore(n, last) == n

\* bootstrap_mempool_monitor: the tick of the first dump.
BootstrapTick(n, last) == IF ~last.isNone THEN n + (last.value + 1) ELSE n

bootstrap_mempool_monitor ==
    /\ pc = "bootstrap"
    /\ \E select_ok \in BOOLEAN :
        /\ ~select_ok => faults < MaxFaults
        /\ faults' = IF select_ok THEN faults ELSE faults + 1
        /\ LET last == get_last_tick(select_ok)
               flt == IF select_ok THEN fault ELSE fault \cup {"get_last_tick"}
               tick == BootstrapTick(nr_ticks, last.value)
               resp == parse_mempool(mempool, tick, chain_height, MODE_INIT)
           IN  IF last.raised
                 THEN /\ bootstrap' = TRUE
                      /\ pc' = "sleep"
                      /\ fault' = flt
                      /\ call' = NoCall
                      /\ UNCHANGED <<nr_ticks, self_mempool, self_chain_height, ret>>
                 ELSE /\ self_chain_height' = chain_height
                      /\ self_mempool' = mempool
                      /\ nr_ticks' = tick
                      /\ IF resp.raised
                           THEN /\ bootstrap' = TRUE
                                /\ pc' = "sleep"
                                /\ fault' = flt \cup {"parse"}
                                /\ call' = NoCall
                                /\ ret' = Append(ret, Outcome(MODE_INIT, "raised", 0, FALSE))
                           ELSE /\ bootstrap' = bootstrap
                                /\ pc' = "insert_unconfirmed_txs"
                                /\ call' = [delta_mode |-> MODE_INIT, response |-> resp]
                                /\ fault' = flt
                                /\ UNCHANGED ret
    /\ UNCHANGED <<cycles, chain_height, mempool, mempool_deltas, db, env, cyc, life,
                   persisted>>

\* Mutant: bootstrap_mempool_monitor returns True after the dump as well.
BootstrapReturnRetries(flt) ==
    /\ nr_ticks' = nr_ticks + 1
    /\ bootstrap' = TRUE
    /\ pc' = "sleep"
    /\ UNCHANGED <<self_mempool, self_chain_height>>
    /\ EndCycle(flt)

\* bootstrap_mempool_monitor after insert_mempool_txs returned: return False.
BootstrapReturn(flt) ==
    /\ nr_ticks' = nr_ticks + 1
    /\ bootstrap' = FALSE
    /\ pc' = "sleep"
    /\ UNCHANGED <<self_mempool, self_chain_height>>
    /\ EndCycle(flt)

\* run(): calculate_mempool_deltas, then insert_mempool_txs(.. MODE_ADD) up to
\* its first INSERT.
deltas ==
    /\ pc = "deltas"
    /\ \E d \in calculate_mempool_deltas(self_mempool, mempool) :
        /\ mempool_deltas' = d
        /\ LET resp == parse_mempool(d.ADD, nr_ticks, chain_height, MODE_ADD)
           IN  IF resp.raised
                 THEN /\ RunExcept
                      /\ fault' = fault \cup {"parse"}
                      /\ call' = NoCall
                      /\ ret' = Append(ret, Outcome(MODE_ADD, "raised", 0, FALSE))
                 ELSE /\ pc' = "insert_unconfirmed_txs"
                      /\ call' = [delta_mode |-> MODE_ADD, response |-> resp]
                      /\ UNCHANGED <<mem, fault, ret>>
    /\ UNCHANGED <<cycles, chain_height, mempool, db, env, faults, cyc, life, persisted>>

\* run() after insert_mempool_txs(.. MODE_ADD) returned: the call with
\* MODE_SUB up to its first INSERT.
InsertSub(flt, rets) ==
    LET resp == parse_mempool(mempool_deltas.SUB, nr_ticks, chain_height, MODE_SUB)
    IN  IF resp.raised
          THEN /\ RunExcept
               /\ fault' = flt \cup {"parse"}
               /\ call' = NoCall
               /\ ret' = Append(rets, Outcome(MODE_SUB, "raised", 0, FALSE))
               /\ UNCHANGED persisted
          ELSE /\ pc' = "insert_unconfirmed_txs"
               /\ call' = [delta_mode |-> MODE_SUB, response |-> resp]
               /\ fault' = flt
               /\ ret' = rets
               /\ UNCHANGED <<mem, persisted>>

\* insert_mempool_txs returns True, after its third INSERT or from its
\* handler "except Exception as sql_err"; the caller goes on.
InsertReturns(committed, failed) ==
    LET flt == IF failed THEN fault \cup {"sql"} ELSE fault
        rets == Append(ret, Outcome(call.delta_mode, "True", committed, failed))
    IN  CASE call.delta_mode = MODE_INIT -> ret' = rets /\ BootstrapReturn(flt)
          [] call.delta_mode = MODE_ADD -> InsertSub(flt, rets)
          [] call.delta_mode = MODE_SUB -> ret' = rets /\ RunFinish /\ EndCycle(flt)

\* insert_mempool_txs goes on to its next INSERT.
InsertNext(next) == pc' = next /\ UNCHANGED <<mem, call, fault, ret, persisted>>

\* __sql_insert(sql_query_insert[UNCONFIRMED_TXS], ..): connect, executemany,
\* commit; the batch is committed whole or the call raises.
insert_unconfirmed_txs ==
    /\ pc = "insert_unconfirmed_txs"
    /\ \/ /\ unconfirmed_txs' = unconfirmed_txs \o call.response.unconfirmed_txs
          /\ InsertNext("insert_raw_mempool")
          /\ UNCHANGED faults
       \/ /\ faults < MaxFaults
          /\ faults' = faults + 1
          /\ InsertReturns(0, TRUE)
          /\ UNCHANGED unconfirmed_txs
    /\ UNCHANGED <<cycles, chain_height, mempool, mempool_deltas, raw_mempool,
                   ancestor_descend, env, cyc, life>>

\* Mutant: a failed INSERT into raw_mempool is passed over and the call goes
\* on with its third INSERT.
insert_raw_mempool_passes_failure ==
    /\ pc = "insert_raw_mempool"
    /\ \/ /\ raw_mempool' = raw_mempool \o call.response.raw_mempool
          /\ InsertNext("insert_ancestor_descend")
          /\ UNCHANGED faults
       \/ /\ faults < MaxFaults
          /\ faults' = faults + 1
          /\ InsertNext("insert_ancestor_descend")
          /\ UNCHANGED raw_mempool
    /\ UNCHANGED <<cycles, chain_height, mempool, mempool_deltas, unconfirmed_txs,
                   ancestor_descend, env, cyc, life>>

\* __sql_insert(sql_query_insert[RAW_MEMPOOL], ..)
insert_raw_mempool ==
    /\ pc = "insert_raw_mempool"
    /\ \/ /\ raw_mempool' = raw_mempool \o call.response.raw_mempool
          /\ InsertNext("insert_ancestor_descend")
          /\ UNCHANGED faults
       \/ /\ faults < MaxFaults
          /\ faults' = faults + 1
          /\ InsertReturns(Len(call.response.unconfirmed_txs), TRUE)
          /\ UNCHANGED raw_mempool
    /\ UNCHANGED <<cycles, chain_height, mempool, mempool_deltas, unconfirmed_txs,
                   ancestor_descend, env, cyc, life>>

\* __sql_insert(sql_query_insert[ANCESTOR_DESCEND], ..), and the return.
insert_ancestor_descend ==
    /\ pc = "insert_ancestor_descend"
    /\ \/ /\ ancestor_descend' = ancestor_descend \o call.response.ancestor_descend
          /\ InsertReturns(Len(call.response.unconfirmed_txs)
                           + Len(call.response.raw_mempool)
                           + Len(call.response.ancestor_descend), FALSE)
          /\ UNCHANGED faults
       \/ /\ faults < MaxFaults
          /\ faults' = faults + 1
          /\ InsertReturns(Len(call.response.unconfirmed_txs)
                           + Len(call.response.raw_mempool), TRUE)
          /\ UNCHANGED ancestor_descend
    /\ UNCHANGED <<cycles, chain_height, mempool, mempool_deltas, unconfirmed_txs,
                   raw_mempool, env, cyc, life>>

\* time.sleep(frequency), then the next turn of "while True"; the locals of
\* the turn that ended are dead.
sleep ==
    /\ pc = "sleep"
    /\ pc' = "getblockchaininfo"
    /\ chain_height' = 0
    /\ mempool' = <<>>
    /\ mempool_deltas' = NoDeltas
    /\ UNCHANGED <<cycles, mem, call, db, env, faults, hist>>

\* mpmonitor.py stop / start: the daemon is killed at any point (SIGTERM) and
\* a new MempoolMonitor is constructed over the same database.
Restart ==
    /\ restarts < MaxRestarts
    /\ restarts' = restarts + 1
    /\ Construct
    /\ cyc' = [bootstrap |-> TRUE, nr_ticks |-> 0, self_mempool |-> <<>>,
               self_chain_height |-> 0, raw_len |-> Len(raw_mempool),
               unconfirmed_len |-> Len(unconfirmed_txs),
               ancestor_len |-> Len(ancestor_descend)]
    /\ life' = [raw_len |-> Len(raw_mempool), last |-> SelectMaxTick]
    /\ UNCHANGED <<cycles, db, faults>>

Next ==
    \/ getblockchaininfo
    \/ getblockchaininfo_raises
    \/ getrawmempool
    \/ getrawmempool_raises
    \/ bootstrap_mempool_monitor
    \/ deltas
    \/ insert_unconfirmed_txs
    \/ insert_raw_mempool
    \/ insert_ancestor_descend
    \/ sleep
    \/ Restart

Spec == Init /\ [][Next]_vars

TypeOK ==
    /\ pc \in {"getblockchaininfo", "getrawmempool", "bootstrap", "deltas",
               "insert_unconfirmed_txs", "insert_raw_mempool",
               "insert_ancestor_descend", "sleep", "crashed",
               "insert_mempool_txs"}
    /\ bootstrap \in BOOLEAN
    /\ nr_ticks \in Nat
    /\ cycles \in 0..MaxCycles

\* The loop is scheduled as long as the process lives; kills are not.
Loop ==
    \/ getblockchaininfo
    \/ getblockchaininfo_raises
    \/ getrawmempool
    \/ getrawmempool_raises
    \/ bootstrap_mempool_monitor
    \/ deltas
    \/ insert_unconfirmed_txs
    \/ insert_raw_mempool
    \/ insert_ancestor_descend
    \/ sleep

FairSpec == Spec /\ WF_vars(Loop)

\* ------------------------------------------------------------- properties
\* The process is between two cycles: the turn that ended is still on record.
BetweenCycles == pc \in {"sleep", "getblockchaininfo"}

\* The membership rows this process has written.
OwnRows == SubSeq(raw_mempool, life.raw_len + 1, Len(raw_mempool))

\* The key set a consumer reconstructs from membership rows.
RECURSIVE Replay(_, _)
Replay(rows, S) ==
    IF rows = <<>> THEN S
    ELSE Replay(Tail(rows),
                IF Head(rows).delta_mode = MODE_SUB
                  THEN S \ {Head(rows).txid}
                  ELSE S \cup {Head(rows).txid})

\* C1: membership rows of a tick that was committed before the current cycle
\* began are never joined by rows of the same tick written in the current
\* cycle, by this process or by a restarted one.
C1_TickNeverRewritten ==
    \A i, j \in DOMAIN raw_mempool :
        (i <= cyc.raw_len /\ j > cyc.raw_len)
            => raw_mempool[i].tick # raw_mempool[j].tick

\* A restarted process has written membership rows into a store that already
\* held some.
C1_Witness ==
    /\ restarts > 0
    /\ cyc.raw_len > 0
    /\ Len(raw_mempool) > cyc.raw_len

\* C2: on a store whose raw_mempool has maximum tick T, the INIT dump of a
\* freshly started process maps the whole fetched snapshot at tick T+1 with
\* mode INIT, whatever bootstrap attempts failed before.
C2_FirstDumpUsesNextTick ==
    (bootstrap /\ call.delta_mode = MODE_INIT /\ ~life.last.isNone)
        => /\ nr_ticks = life.last.value + 1
           /\ Len(call.response.raw_mempool) = Len(mempool)
           /\ \A i \in DOMAIN call.response.raw_mempool :
                /\ call.response.raw_mempool[i].tick = life.last.value + 1
                /\ call.response.raw_mempool[i].delta_mode = MODE_INIT

\* C3: the INIT dump on an empty store uses tick 0, and the one on a store
\* whose only committed tick is 0 uses tick 1.
C3_EmptyStoreVersusTickZero ==
    (bootstrap /\ call.delta_mode = MODE_INIT)
        => /\ life.last.isNone => nr_ticks = 0
           /\ life.last = PyInt(0) => nr_ticks = 1

\* C4: a steady-state cycle in which an INSERT raised ends with the tick
\* counter and the held snapshot it began with.
C4_FailedWriteAbandonsCycle ==
    (BetweenCycles /\ ~cyc.bootstrap /\ "sql" \in fault)
        => /\ nr_ticks = cyc.nr_ticks
           /\ self_mempool = cyc.self_mempool

\* C5: a cycle in which getblockchaininfo or getrawmempool raised ends with
\* no row written and with the tick counter, the held snapshot, the stored
\* chain height and the bootstrap flag it began with.
C5_NodeFailureChangesNothing ==
    (BetweenCycles /\ fault \cap {"getblockchaininfo", "getrawmempool"} # {})
        => Snapshot = cyc

\* A node call raised in steady state and the next cycle is about to start.
C5_Witness ==
    /\ pc = "getblockchaininfo"
    /\ fault \cap {"getblockchaininfo", "getrawmempool"} # {}
    /\ ~bootstrap
    /\ self_mempool # <<>>
    /\ raw_mempool # <<>>

\* C6: between cycles, after bootstrap, replaying the membership rows this
\* process has written yields the key set of the held snapshot.
C6_ReplayYieldsHeldSnapshot ==
    (BetweenCycles /\ ~bootstrap) => Replay(OwnRows, {}) = Keys(self_mempool)

\* C7: a cycle whose writes all succeed leaves the counter one above the tick
\* it used, and the ticks of two consecutive successfully persisted cycles of
\* a process are consecutive integers.
C7_CleanCyclesUseConsecutiveTicks ==
    /\ (pc = "sleep" /\ fault = {} /\ persisted # <<>>)
            => nr_ticks = persisted[Len(persisted)] + 1
    /\ \A i \in 1..(Len(persisted) - 1) : persisted[i + 1] = persisted[i] + 1

\* C8: a cycle in which the last-tick query raised calls no insert, writes no
\* row, leaves the tick counter unchanged and stays in bootstrap until the
\* next cycle starts.
C8_FailedTickQueryRetries ==
    ("get_last_tick" \in fault)
        => /\ BetweenCycles
           /\ bootstrap
           /\ ret = <<>>
           /\ call = NoCall
           /\ Snapshot = cyc

\* The last-tick query raised on a store that holds committed ticks.
C8_Witness ==
    /\ "get_last_tick" \in fault
    /\ raw_mempool # <<>>
    /\ pc = "getblockchaininfo"

\* C9: a call of insert_mempool_txs in which an INSERT raised after rows of
\* the call were committed does not return to its caller as a clean call does.
C9_PartialCommitSurfaced ==
    \A i \in DOMAIN ret :
        (ret[i].failed /\ ret[i].committed > 0) => ret[i].result # "True"

\* C10: in steady state, after a failure of a node call, of the mapping or of
\* an INSERT the process has not left run(): it is at the start of the next
\* cycle or its loop has a next step to take towards it.
C10_SteadyLoopSurvives ==
    (~bootstrap /\ fault # {})
        => /\ pc # "crashed"
           /\ pc = "getblockchaininfo" \/ ENABLED Loop

\* In steady state the mapping raised, and the loop is at its next cycle.
C10_Witness ==
    /\ ~cyc.bootstrap
    /\ "parse" \in fault
    /\ pc = "getblockchaininfo"

\* C11: the process is in steady state only with the INIT dump persisted.
\* In the cycle that left bootstrap the held snapshot is the one that was
\* dumped and the counter is one above the chosen tick; the store is
\* append-only, so rows present then are present ever after.
C11_SteadyOnlyAfterInitPersisted ==
    (cyc.bootstrap /\ ~bootstrap)
        => \A t \in Keys(self_mempool) :
              \E i \in DOMAIN OwnRows :
                  /\ OwnRows[i].txid = t
                  /\ OwnRows[i].delta_mode = MODE_INIT
                  /\ OwnRows[i].tick = nr_ticks - 1

\* ------------------------------------------- calculate_mempool_deltas alone
\* The snapshots the function is applied to: up to MaxTxs entries with
\* distinct txids, in any order of the JSON object.
CPlain == Tx("txC", TxInfo(1, 1, <<>>, <<>>, TRUE, "wC"))

DeltaEntries == {APlain, AParent, BPlain, BChild, BNoFees, CPlain}

Snapshots(entries, n) ==
    {s \in UNION {[1..k -> entries] : k \in 0..n} :
        \A i, j \in DOMAIN s : i # j => s[i].txid # s[j].txid}

\* The tick of the cycle and the chain height fetched in it.
DeltaTicks == {[tick |-> 1, blocks |-> 100], [tick |-> 5, blocks |-> 101]}

\* A steady-state process that holds one snapshot (kept on record in cyc) and
\* has fetched another.
DeltaInit ==
    /\ pc = "deltas"
    /\ bootstrap = FALSE
    /\ \E t \in DeltaTicks : nr_ticks = t.tick /\ chain_height = t.blocks
    /\ self_mempool \in Snapshots(DeltaEntries, MaxTxs)
    /\ mempool \in Snapshots(DeltaEntries, MaxTxs)
    /\ self_chain_height = 100
    /\ mempool_deltas = NoDeltas
    /\ call = NoCall
    /\ raw_mempool = <<>>
    /\ unconfirmed_txs = <<>>
    /\ ancestor_descend = <<>>
    /\ restarts = 0
    /\ faults = 0
    /\ cycles = 0
    /\ cyc = Snapshot
    /\ fault = {}
    /\ ret = <<>>
    /\ life = [raw_len |-> 0, last |-> PyNone]
    /\ persisted = <<>>

\* One steady-state cycle from the diff on: calculate_mempool_deltas and the
\* two calls of insert_mempool_txs.
DeltaNext ==
    \/ deltas
    \/ insert_unconfirmed_txs
    \/ insert_raw_mempool
    \/ insert_ancestor_descend

DeltaSpec == DeltaInit /\ [][DeltaNext]_vars

\* C12: the ADD component holds exactly the ids of the current snapshot that
\* the previous one lacks, each once and with its TxInfo of the current
\* snapshot; the SUB component exactly the ids of the previous snapshot that
\* the current one lacks, each once and with its TxInfo of the previous one.
C12_DeltasAreKeyDifferences ==
    (pc # "deltas")
        => /\ Keys(mempool_deltas.ADD) = Keys(mempool) \ Keys(cyc.self_mempool)
           /\ Len(mempool_deltas.ADD)
                = Cardinality(Keys(mempool) \ Keys(cyc.self_mempool))
           /\ \A i \in DOMAIN mempool_deltas.ADD :
                \E j \in DOMAIN mempool : mempool_deltas.ADD[i] = mempool[j]
           /\ Keys(mempool_deltas.SUB) = Keys(cyc.self_mempool) \ Keys(mempool)
           /\ Len(mempool_deltas.SUB)
                = Cardinality(Keys(cyc.self_mempool) \ Keys(mempool))
           /\ \A i \in DOMAIN mempool_deltas.SUB :
                \E j \in DOMAIN cyc.self_mempool :
                    mempool_deltas.SUB[i] = cyc.self_mempool[j]

\* The two snapshots share an id whose TxInfo differs, and each has an id the
\* other lacks.
C12_Witness ==
    /\ pc # "deltas"
    /\ mempool_deltas.ADD # <<>>
    /\ mempool_deltas.SUB # <<>>
    /\ \E i \in DOMAIN cyc.self_mempool, j \in DOMAIN mempool :
          /\ cyc.self_mempool[i].txid = mempool[j].txid
          /\ cyc.self_mempool[i].info # mempool[j].info

\* C13: no id is in both components of a delta.
C13_AddSubDisjoint ==
    (pc # "deltas")
        => Keys(mempool_deltas.ADD) \cap Keys(mempool_deltas.SUB) = {}

\* Both components are non-empty and the snapshots overlap.
C13_Witness ==
    /\ pc # "deltas"
    /\ mempool_deltas.ADD # <<>>
    /\ mempool_deltas.SUB # <<>>
    /\ Keys(cyc.self_mempool) \cap Keys(mempool) # {}

\* C14: adding the ADD ids to the previous key set and removing the SUB ids
\* gives the current key set.
C14_ApplyingDeltaGivesCurrent ==
    (pc # "deltas")
        => (Keys(cyc.self_mempool) \cup Keys(mempool_deltas.ADD))
              \ Keys(mempool_deltas.SUB) = Keys(mempool)

\* A delta that both adds and removes while one id stays.
C14_Witness ==
    /\ pc # "deltas"
    /\ Len(cyc.self_mempool) = 2
    /\ Len(mempool) = 2
    /\ Len(mempool_deltas.ADD) = 1
    /\ Len(mempool_deltas.SUB) = 1

\* C15: when the fetched snapshot has the ids of the held one (the same
\* snapshot, the empty one included) both components of the delta are empty,
\* and the cycle ends without a row written to any of the three tables.
C15_EmptyDeltaWritesNothing ==
    (pc # "deltas" /\ Keys(mempool) = Keys(cyc.self_mempool))
        => /\ mempool_deltas = NoDeltas
           /\ Len(unconfirmed_txs) = cyc.unconfirmed_len
           /\ Len(raw_mempool) = cyc.raw_len
           /\ Len(ancestor_descend) = cyc.ancestor_len
           /\ call.delta_mode # "none"
                => /\ call.response.unconfirmed_txs = <<>>
                   /\ call.response.raw_mempool = <<>>
                   /\ call.response.ancestor_descend = <<>>

\* A cycle that diffed a non-empty snapshot against itself has ended after
\* both calls of insert_mempool_txs.
C15_Witness ==
    /\ pc = "sleep"
    /\ fault = {}
    /\ Len(ret) = 2
    /\ cyc.self_mempool # <<>>
    /\ mempool = cyc.self_mempool

\* ------------------------------------------------- insert_mempool_txs alone
\* The snapshots the mapper is applied to.  txB takes every ancestor count
\* and descendant count up to MaxCount with every depends and spentby list
\* of up to MaxRel ids, whether or not counts and lists agree; txA comes
\* without relatives, with a child, or without its "fees" object.
DependsPool == <<"txA", "txC", "txE", "txG">>
SpentbyPool == <<"txD", "txF", "txH", "txJ">>

RelLists(pool) == {SubSeq(pool, 1, n) : n \in 0..MaxRel}

ANoFees == Tx("txA", TxInfo(1, 1, <<>>, <<>>, FALSE, "wA"))

AEntries == {APlain, AParent, ANoFees}

BEntries ==
    {Tx("txB", TxInfo(ac, dc, dep, spb, TRUE, "wB")) :
        ac \in 0..MaxCount, dc \in 0..MaxCount,
        dep \in RelLists(DependsPool), spb \in RelLists(SpentbyPool)}

MapperSnapshots ==
    {<<>>} \cup {<<e>> : e \in AEntries \cup BEntries}
           \cup {<<a, b>> : a \in AEntries, b \in BEntries}
           \cup {<<b, a>> : a \in AEntries, b \in BEntries}

\* The tick and the chain height handed to the mapper.
MapperTicks == {[tick |-> 0, blocks |-> 100], [tick |-> 5, blocks |-> 101]}

\* A process about to call insert_mempool_txs on a snapshot: in bootstrap with
\* MODE_INIT, in steady state with MODE_ADD or MODE_SUB.
MapperInit ==
    /\ pc = "insert_mempool_txs"
    /\ bootstrap \in BOOLEAN
    /\ \E t \in MapperTicks : nr_ticks = t.tick /\ chain_height = t.blocks
    /\ self_mempool = <<>>
    /\ mempool \in MapperSnapshots
    /\ self_chain_height = 0
    /\ mempool_deltas = NoDeltas
    /\ call = NoCall
    /\ raw_mempool = <<>>
    /\ unconfirmed_txs = <<>>
    /\ ancestor_descend = <<>>
    /\ restarts = 0
    /\ faults = 0
    /\ cycles = 0
    /\ cyc = Snapshot
    /\ fault = {}
    /\ ret = <<>>
    /\ life = [raw_len |-> 0, last |-> PyNone]
    /\ persisted = <<>>

\* insert_mempool_txs(mempool, self.__nr_ticks, chain_height, mode) up to its
\* first INSERT.
insert_mempool_txs ==
    /\ pc = "insert_mempool_txs"
    /\ \E mode \in IF bootstrap THEN {MODE_INIT} ELSE {MODE_ADD, MODE_SUB} :
          LET resp == parse_mempool(mempool, nr_ticks, chain_height, mode)
          IN  IF resp.raised
                THEN /\ pc' = "sleep"
                     /\ fault' = fault \cup {"parse"}
                     /\ call' = NoCall
                     /\ ret' = Append(ret, Outcome(mode, "raised", 0, FALSE))
                ELSE /\ pc' = "insert_unconfirmed_txs"
                     /\ call' = [delta_mode |-> mode, response |-> resp]
                     /\ UNCHANGED <<fault, ret>>
    /\ UNCHANGED <<mem, chain_height, mempool, mempool_deltas, db, env,
                   faults, cycles, cyc, life, persisted>>

MapperNext ==
    \/ insert_mempool_txs
    \/ insert_unconfirmed_txs
    \/ insert_raw_mempool
    \/ insert_ancestor_descend

MapperSpec == MapperInit /\ [][MapperNext]_vars

\* The entry of the mapped snapshot with this txid.
EntryOf(txid) == Tx(txid, Lookup(mempool, txid))

\* The rows of a list that belong to one transaction.
RowsOf(rows, txid) == {i \in DOMAIN rows : rows[i].txid = txid}

\* C16: the mapping with mode SUB yields no edge row whatever the counts and
\* lists of the transactions, and a call with mode SUB leaves the table
\* ancestor_descend as it found it.
C16_SubWritesNoEdges ==
    /\ call.delta_mode = MODE_SUB => call.response.ancestor_descend = <<>>
    /\ (/\ call.delta_mode \in {MODE_SUB, "none"}
        /\ \A i \in DOMAIN ret : ret[i].delta_mode = MODE_SUB)
            => Len(ancestor_descend) = cyc.ancestor_len

\* A SUB call on a transaction with both counts above 1 and both lists
\* non-empty has written its rows.
C16_Witness ==
    /\ pc = "sleep"
    /\ fault = {}
    /\ ret = <<Outcome(MODE_SUB, "True", 2, FALSE)>>
    /\ Len(raw_mempool) = 1
    /\ \E i \in DOMAIN mempool :
          /\ mempool[i].info.ancestorcount > 1
          /\ mempool[i].info.descendantcount > 1
          /\ mempool[i].info.depends # <<>>
          /\ mempool[i].info.spentby # <<>>

\* The number of edge rows the mapping in progress has made for a txid, and
\* the related ids they name under one relation.
EdgeCount(txid) == Cardinality(RowsOf(call.response.ancestor_descend, txid))

EdgeIds(txid, relation) ==
    {call.response.ancestor_descend[i].rel_txid :
        i \in {j \in RowsOf(call.response.ancestor_descend, txid) :
                  call.response.ancestor_descend[j].relation = relation}}

Range(s) == {s[i] : i \in DOMAIN s}

\* C17 as the specification states it: with mode INIT or ADD a transaction
\* with ancestor count above 1 or descendant count above 1 gets one edge row
\* per entry of its depends list plus one per entry of its spentby list, and
\* a transaction with both counts at most 1 gets none.
C17_EdgesPerListEntry ==
    (call.delta_mode \in {MODE_INIT, MODE_ADD})
        => \A t \in Keys(mempool) :
              LET e == EntryOf(t).info
              IN  EdgeCount(t) =
                    IF e.ancestorcount > 1 \/ e.descendantcount > 1
                      THEN Len(e.depends) + Len(e.spentby)
                      ELSE 0

\* C17 amended: with mode INIT or ADD a transaction gets one ancestor row per
\* entry of its depends list if its ancestor count is above 1, plus one
\* descend row per entry of its spentby list if its descendant count is above
\* 1, and no other edge row; so none when both counts are at most 1.
C17_EdgesPerListEntryOfCountedRelation ==
    (call.delta_mode \in {MODE_INIT, MODE_ADD})
        => \A t \in Keys(mempool) :
              LET e == EntryOf(t).info
                  dep == IF e.ancestorcount > 1 THEN e.depends ELSE <<>>
                  spb == IF e.descendantcount > 1 THEN e.spentby ELSE <<>>
              IN  /\ EdgeCount(t) = Len(dep) + Len(spb)
                  /\ EdgeIds(t, ANCESTOR) = Range(dep)
                  /\ EdgeIds(t, DESCEND) = Range(spb)
                  /\ (e.ancestorcount <= 1 /\ e.descendantcount <= 1)
                        => EdgeCount(t) = 0

\* An INIT or ADD mapping of a transaction with two depends entries, ancestor
\* count 2, and a spentby entry under descendant count 1, next to a
\* transaction with a child.
C17_Witness ==
    /\ call.delta_mode \in {MODE_INIT, MODE_ADD}
    /\ Len(call.response.ancestor_descend) = 3
    /\ \E i, j \in DOMAIN mempool :
          /\ mempool[i].info.ancestorcount = 2
          /\ mempool[i].info.descendantcount = 1
          /\ Len(mempool[i].info.depends) = 2
          /\ Len(mempool[i].info.spentby) = 1
          /\ mempool[j] = AParent

\* The first call of insert_mempool_txs of the cycle is in progress: the one
\* that maps the fetched snapshot.
FirstCall == call.delta_mode # "none" /\ ret = <<>>

\* C18: in every mode the mapping of a snapshot yields one membership row per
\* transaction, with its txid and the tick, mode and chain height passed, and
\* one metadata row per transaction, in the order of the snapshot.
C18_OneMembershipAndMetadataRowPerTx ==
    FirstCall
        => /\ Len(call.response.raw_mempool) = Len(mempool)
           /\ Len(call.response.unconfirmed_txs) = Len(mempool)
           /\ \A t \in Keys(mempool) :
                Cardinality(RowsOf(call.response.raw_mempool, t)) = 1
           /\ \A i \in DOMAIN call.response.raw_mempool :
                /\ call.response.raw_mempool[i].tick = nr_ticks
                /\ call.response.raw_mempool[i].delta_mode = call.delta_mode
                /\ call.response.raw_mempool[i].chain_height = chain_height
           /\ \A i \in DOMAIN mempool :
                /\ call.response.unconfirmed_txs[i].wtxid = mempool[i].info.wtxid
                /\ call.response.unconfirmed_txs[i].ancestorcount
                      = mempool[i].info.ancestorcount
                /\ call.response.unconfirmed_txs[i].descendantcount
                      = mempool[i].info.descendantcount

\* A SUB mapping of two transactions at tick 5, one of them with relatives.
C18_Witness ==
    /\ FirstCall
    /\ call.delta_mode = MODE_SUB
    /\ nr_ticks = 5
    /\ Len(mempool) = 2
    /\ \E i \in DOMAIN mempool : mempool[i].info.depends # <<>>

\* C19: in every metadata row, whatever the non-negative counts, depends is
\* true exactly when the ancestor count is above 1 and spentby is true
\* exactly when the descendant count is above 1.
C19_FlagsAreCountAboveOne ==
    \A i \in DOMAIN call.response.unconfirmed_txs :
        LET row == call.response.unconfirmed_txs[i]
        IN  /\ row.depends = (row.ancestorcount > 1)
            /\ row.spentby = (row.descendantcount > 1)

\* C20: a cycle that began in steady state stays in steady state: it never
\* enters bootstrap_mempool_monitor (where alone the last-tick query is
\* issued), makes no INIT call and writes no INIT row; and the INIT rows a
\* process has written all carry one tick.
C20_BootstrapOnlyOncePerLifetime ==
    /\ ~cyc.bootstrap
          => /\ ~bootstrap
             /\ "get_last_tick" \notin fault
             /\ \A i \in DOMAIN ret : ret[i].delta_mode # MODE_INIT
             /\ \A i \in DOMAIN raw_mempool :
                  i > cyc.raw_len => raw_mempool[i].delta_mode # MODE_INIT
    /\ ~bootstrap => (pc # "bootstrap" /\ call.delta_mode # MODE_INIT)
    /\ \A i, j \in DOMAIN OwnRows :
          (OwnRows[i].delta_mode = MODE_INIT /\ OwnRows[j].delta_mode = MODE_INIT)
              => OwnRows[i].tick = OwnRows[j].tick

\* A process has written its INIT dump and, two cycles later, rows of a diff.
C20_Witness ==
    /\ ~cyc.bootstrap
    /\ pc = "sleep"
    /\ cyc.nr_ticks >= 2
    /\ \E i, j \in DOMAIN OwnRows :
          /\ i < j
          /\ OwnRows[i].delta_mode = MODE_INIT
          /\ OwnRows[j].delta_mode # MODE_INIT
          /\ OwnRows[j].tick > OwnRows[i].tick + 1

\* The indices of the first outcome of a mode among the cycle's insert calls.
CallsOf(mode) == {i \in DOMAIN ret : ret[i].delta_mode = mode}

\* C21: in a steady-state cycle both calls of insert_mempool_txs map at the
\* tick the cycle began with and at the chain height fetched in the cycle,
\* the rows the cycle has written carry that tick and height with every ADD
\* row before every SUB row, and the tick counter has left the value the
\* cycle began with only after both the ADD and the SUB call were made.
C21_AddAndSubShareTickAndHeight ==
    (~cyc.bootstrap /\ pc # "getblockchaininfo")
        => /\ call.delta_mode \in {MODE_ADD, MODE_SUB}
                => /\ nr_ticks = cyc.nr_ticks
                   /\ \A i \in DOMAIN call.response.raw_mempool :
                        /\ call.response.raw_mempool[i].tick = cyc.nr_ticks
                        /\ call.response.raw_mempool[i].chain_height
                              = chain_height
                   /\ \A i \in DOMAIN call.response.ancestor_descend :
                        call.response.ancestor_descend[i].tick = cyc.nr_ticks
                   /\ call.delta_mode = MODE_SUB => CallsOf(MODE_ADD) # {}
           /\ \A i \in DOMAIN raw_mempool :
                i > cyc.raw_len
                    => /\ raw_mempool[i].tick = cyc.nr_ticks
                       /\ raw_mempool[i].chain_height = chain_height
                       /\ \A j \in DOMAIN raw_mempool :
                            (j > i /\ raw_mempool[i].delta_mode = MODE_SUB)
                                => raw_mempool[j].delta_mode = MODE_SUB
           /\ \A i \in DOMAIN ancestor_descend :
                i > cyc.ancestor_len
                    => ancestor_descend[i].tick = cyc.nr_ticks
           /\ \A i \in CallsOf(MODE_ADD), j \in CallsOf(MODE_SUB) : i < j
           /\ nr_ticks # cyc.nr_ticks
                => (CallsOf(MODE_ADD) # {} /\ CallsOf(MODE_SUB) # {})

\* The end-to-end scenario: the process holds {txA}, has fetched {txA, txB}
\* with txB a child of txA, and is mapping the ADD delta at tick 5.
ScenarioAddChild ==
    /\ call.delta_mode = MODE_ADD
    /\ nr_ticks = 5
    /\ cyc.self_mempool = <<APlain>>
    /\ Keys(mempool) = {"txA", "txB"}
    /\ Lookup(mempool, "txB") = BChild.info

\* C22 as the specification states it: every edge row of a mapping carries
\* the tick of the call and the txid of a mapped transaction, with relation
\* "ancestor" and an entry of its depends list or relation "descendant" and an
\* entry of its spentby list; the scenario yields the one edge row
\* (5, txB, ancestor, txA).
C22_EdgeRowShape ==
    /\ call.delta_mode # "none"
          => \A i \in DOMAIN call.response.ancestor_descend :
                LET row == call.response.ancestor_descend[i]
                IN  /\ row.tick = nr_ticks
                    /\ row.txid \in Keys(mempool)
                    /\ \/ /\ row.relation = "ancestor"
                          /\ row.rel_txid \in Range(EntryOf(row.txid).info.depends)
                       \/ /\ row.relation = "descendant"
                          /\ row.rel_txid \in Range(EntryOf(row.txid).info.spentby)
    /\ ScenarioAddChild
          => call.response.ancestor_descend
                = <<[tick |-> 5, txid |-> "txB", relation |-> "ancestor",
                     rel_txid |-> "txA"]>>

\* C22 amended: the same, with relation "descend" for an entry of the
\* spentby list.
C22_EdgeRowShapeDescend ==
    /\ call.delta_mode # "none"
          => \A i \in DOMAIN call.response.ancestor_descend :
                LET row == call.response.ancestor_descend[i]
                IN  /\ row.tick = nr_ticks
                    /\ row.txid \in Keys(mempool)
                    /\ \/ /\ row.relation = "ancestor"
                          /\ row.rel_txid \in Range(EntryOf(row.txid).info.depends)
                       \/ /\ row.relation = "descend"
                          /\ row.rel_txid \in Range(EntryOf(row.txid).info.spentby)
    /\ ScenarioAddChild
          => /\ call.response.ancestor_descend
                  = <<[tick |-> 5, txid |-> "txB", relation |-> "ancestor",
                       rel_txid |-> "txA"]>>
             /\ Len(call.response.raw_mempool) = 1
             /\ Len(call.response.unconfirmed_txs) = 1

\* The scenario is being mapped.
C22_Witness ==
    /\ ScenarioAddChild
    /\ mempool_deltas.SUB = <<>>
    /\ pc = "insert_ancestor_descend"

\* The position of a transaction among the membership rows of the mapping in
\* progress.
PositionOf(txid) ==
    CHOOSE i \in DOMAIN call.response.raw_mempool :
        call.response.raw_mempool[i].txid = txid

\* C23: in one mapping the i-th membership row and the i-th metadata row are
\* made from the same transaction, the i-th of the snapshot, and the edge
\* rows follow the order of the transactions.
C23_RowsFollowTransactionOrder ==
    FirstCall
        => /\ \A i \in DOMAIN call.response.raw_mempool :
                LET t == call.response.raw_mempool[i].txid
                IN  /\ i \in DOMAIN call.response.unconfirmed_txs
                    /\ t = mempool[i].txid
                    /\ call.response.unconfirmed_txs[i]
                          = parse_unconfirmed_txs(EntryOf(t))
           /\ \A i, j \in DOMAIN call.response.ancestor_descend :
                i < j => PositionOf(call.response.ancestor_descend[i].txid)
                            <= PositionOf(call.response.ancestor_descend[j].txid)

\* An INIT mapping of two transactions with different metadata that both
\* have edge rows.
C23_Witness ==
    /\ FirstCall
    /\ call.delta_mode = MODE_INIT
    /\ Len(mempool) = 2
    /\ call.response.unconfirmed_txs[1] # call.response.unconfirmed_txs[2]
    /\ \A t \in Keys(mempool) : EdgeCount(t) > 0
    /\ mempool[1].txid = "txB"

\* C24: in table raw_mempool the rows of one tick are all of mode INIT or all
\* of mode ADD or SUB, and no two of them carry the same txid.
C24_TicksAreHomogeneous ==
    \A i, j \in DOMAIN raw_mempool :
        (raw_mempool[i].tick = raw_mempool[j].tick)
            => /\ (raw_mempool[i].delta_mode = MODE_INIT)
                    <=> (raw_mempool[j].delta_mode = MODE_INIT)
               /\ i # j => raw_mempool[i].txid # raw_mempool[j].txid

\* A restarted process has added rows to a store that holds a tick of several
\* rows and rows of a diff.
C24_Witness ==
    /\ restarts > 0
    /\ life.raw_len > 0
    /\ Len(raw_mempool) > life.raw_len
    /\ \E i, j \in DOMAIN raw_mempool :
          i # j /\ raw_mempool[i].tick = raw_mempool[j].tick
    /\ \E i \in DOMAIN raw_mempool : raw_mempool[i].delta_mode # MODE_INIT

\* C25: every row of table ancestor_descend has a row of table raw_mempool
\* with its tick and txid and with mode INIT or ADD.
C25_EdgesHaveMembershipRows ==
    \A i \in DOMAIN ancestor_descend :
        \E j \in DOMAIN raw_mempool :
            /\ raw_mempool[j].tick = ancestor_descend[i].tick
            /\ raw_mempool[j].txid = ancestor_descend[i].txid
            /\ raw_mempool[j].delta_mode \in {MODE_INIT, MODE_ADD}

\* The store holds edge rows, an INSERT has raised in the current cycle, and
\* the process was killed and started again.
C25_Witness ==
    /\ ancestor_descend # <<>>
    /\ "sql" \in fault
    /\ restarts > 0
    /\ Len(unconfirmed_txs) > Len(raw_mempool)

\* C26: between cycles the tables unconfirmed_txs and raw_mempool hold the
\* same number of rows, on which the pairing of their k-th rows rests.
C26_MetadataMatchesMembership ==
    BetweenCycles => Len(unconfirmed_txs) = Len(raw_mempool)

\* C27: a bootstrap cycle that ends still in bootstrap, because the last-tick
\* query or the INIT dump raised, ends with the tick counter it began with.
C27_FailedBootstrapKeepsCounter ==
    (BetweenCycles /\ cyc.bootstrap /\ bootstrap
        /\ fault \cap {"get_last_tick", "parse"} # {})
        => nr_ticks = cyc.nr_ticks

\* The ids that the held snapshot and the fetched one share, and their wtxids.
SharedIds == Keys(cyc.self_mempool) \cap Keys(mempool)

SharedWtxids == {Lookup(mempool, t).wtxid : t \in SharedIds}

\* C28: in a steady-state cycle no row mapped for or written to any of the
\* three tables belongs to a transaction whose id is in both the held and the
\* fetched snapshot, whether or not its TxInfo has changed.
C28_SharedIdsProduceNoRows ==
    (pc # "deltas")
        => /\ \A i \in DOMAIN raw_mempool : raw_mempool[i].txid \notin SharedIds
           /\ \A i \in DOMAIN ancestor_descend :
                ancestor_descend[i].txid \notin SharedIds
           /\ \A i \in DOMAIN unconfirmed_txs :
                unconfirmed_txs[i].wtxid \notin SharedWtxids
           /\ \A i \in DOMAIN call.response.raw_mempool :
                call.response.raw_mempool[i].txid \notin SharedIds
           /\ \A i \in DOMAIN call.response.ancestor_descend :
                call.response.ancestor_descend[i].txid \notin SharedIds
           /\ \A i \in DOMAIN call.response.unconfirmed_txs :
                call.response.unconfirmed_txs[i].wtxid \notin SharedWtxids

\* txA is held without relatives and fetched again with a child, txB; the
\* cycle has written the rows of txB only.
C28_Witness ==
    /\ pc = "sleep"
    /\ fault = {}
    /\ cyc.self_mempool = <<APlain>>
    /\ mempool = <<AParent, BChild>>
    /\ Len(raw_mempool) = 1
    /\ Len(unconfirmed_txs) = 1
    /\ Len(ancestor_descend) = 1

\* ------------------------------------------------------------ one lifetime
\* One process that is never killed, its loop scheduled fairly.
LiveSpec == Init /\ [][Loop]_vars /\ WF_vars(Loop)

\* A cycle has ended in which nothing raised: no node call, not the last-tick
\* query, not the mapping and no INSERT.
CleanCycleEnded == pc = "sleep" /\ fault = {}

\* C29: every cycle the loop begins comes to its sleep, and one in which
\* nothing raised ends in steady state with the tick counter above the value
\* the cycle began with, whatever failed in the cycles before it.
C29_CleanCycleLeavesBootstrap ==
    (pc = "getblockchaininfo" /\ cycles < MaxCycles)
        ~> (pc = "sleep"
              /\ (fault = {} => (~bootstrap /\ nr_ticks > cyc.nr_ticks)))

\* After a bootstrap attempt that failed, a cycle in which nothing raised has
\* left bootstrap.
C29_Witness ==
    /\ CleanCycleEnded
    /\ cyc.bootstrap
    /\ ~bootstrap
    /\ cycles > 1
    /\ faults > 0

====
